---- MODULE Spec2Model ----
(***************************************************************************)
(* A model of seqpy.multiqc.MultiQC: construction from a MultiQC report    *)
(* (_extract_multiQC_data and its helpers), compile_subset,                *)
(* detect_outliers and _label_file.                                        *)
(*                                                                         *)
(* Python values are modelled as follows.                                  *)
(*   str            a sequence of one-character strings, so that the       *)
(*                  substring test and f-string concatenation are real     *)
(*   dict           a sequence of <<key, value>> pairs in insertion order  *)
(*   list           a sequence                                             *)
(*   number         an integer; statistics are exact rationals <<p, q>>    *)
(*   a raise        a record [ok |-> FALSE, err |-> <exception class>]     *)
(***************************************************************************)
EXTENDS Integers, Sequences, FiniteSets, TLC

(***************************************************************************)
(* Bounds of the model.                                                    *)
(***************************************************************************)
MaxVal == 3
MaxSubsetLen == 3

(***************************************************************************)
(* Python strings and dicts.                                               *)
(***************************************************************************)

\* Python's `sub in s` for strings
IsSubstring(sub, s) ==
    \E i \in 0..(Len(s) - Len(sub)) : SubSeq(s, i + 1, i + Len(sub)) = sub

\* `k in d`
DictHas(d, k) == \E i \in 1..Len(d) : d[i][1] = k

\* `d[k]` for a key that is present
DictGet(d, k) == d[CHOOSE i \in 1..Len(d) : d[i][1] = k][2]

\* `d[k] = v`: an existing key keeps its position, a new key is appended
DictSet(d, k, v) ==
    IF DictHas(d, k)
    THEN [i \in 1..Len(d) |-> IF d[i][1] = k THEN <<k, v>> ELSE d[i]]
    ELSE Append(d, <<k, v>>)

\* `list(d.keys())`
DictKeys(d) == [i \in 1..Len(d) |-> d[i][1]]

\* `set(lst)`
ToSet(lst) == {lst[i] : i \in 1..Len(lst)}

\* the outcome of a call: a returned value or a raised exception
Ok(v) == [ok |-> TRUE, val |-> v]
Raise(e) == [ok |-> FALSE, err |-> e]

\* a JSON/Python int used as a dict key, and a str used as a dict key
PyInt(n) == [int |-> n]
PyStr(s) == [str |-> s]
IsPyInt(b) == DOMAIN b = {"int"}

\* str(n) for 0 <= n <= 99
Digit(n) == CASE n = 0 -> "0" [] n = 1 -> "1" [] n = 2 -> "2" [] n = 3 -> "3"
              [] n = 4 -> "4" [] n = 5 -> "5" [] n = 6 -> "6" [] n = 7 -> "7"
              [] n = 8 -> "8" [] n = 9 -> "9"
StrOfInt(n) == IF n < 10 THEN <<Digit(n)>> ELSE <<Digit(n \div 10), Digit(n % 10)>>

\* str(b) / f"{b}" of a bin label
StrOf(b) == IF IsPyInt(b) THEN StrOfInt(b.int) ELSE b.str

(***************************************************************************)
(* The data classes.                                                       *)
(***************************************************************************)
OneValueData(datakey, units, value) ==
    [type |-> "OneValueData", datakey |-> datakey, units |-> units, value |-> value]

IndexedValuesData(datakey, units, bins, bin_units, values) ==
    [type |-> "IndexedValuesData", datakey |-> datakey, units |-> units,
     bins |-> bins, bin_units |-> bin_units, values |-> values]

\* the comparison points __init__ accepts
OUTLIER_COMPARISION == {"median", "mean"}

(***************************************************************************)
(* MultiQC._label_file                                                     *)
(***************************************************************************)

\* `matched` is False or a file label; a label is truthy unless it is ""
MatchedFalse == [isLabel |-> FALSE]
MatchedLabel(l) == [isLabel |-> TRUE, label |-> l]
Truthy(m) == m.isLabel /\ m.label # <<>>

RECURSIVE LabelLoop(_, _, _, _)
LabelLoop(mapping, filename, i, matched) ==
    IF i > Len(mapping)
    THEN IF Truthy(matched) THEN Ok(matched.label) ELSE Raise("ValueError")
    ELSE IF IsSubstring(mapping[i][1], filename)
         THEN IF ~Truthy(matched)
              THEN LabelLoop(mapping, filename, i + 1, MatchedLabel(mapping[i][2]))
              ELSE Raise("ValueError")
         ELSE LabelLoop(mapping, filename, i + 1, matched)

label_file(mapping, filename) == LabelLoop(mapping, filename, 1, MatchedFalse)

(***************************************************************************)
(* MultiQC._extract_multiQC_data and the two plot extractors.              *)
(* data_mapping is the defaultdict sample -> key -> data object.           *)
(***************************************************************************)

\* data_mapping[sample][key] = value, on the nested defaultdict
MappingSet(dm, sample, key, value) ==
    LET inner == IF DictHas(dm, sample) THEN DictGet(dm, sample) ELSE <<>>
    IN DictSet(dm, sample, DictSet(inner, key, value))

\* [sample for sample in samples if sample in file_name]
MatchingSamples(samples, file_name) ==
    SelectSeq(samples, LAMBDA s : IsSubstring(s, file_name))

\* for key, value in data.items(): data_mapping[cur_sample][full_key] = ...
RECURSIVE StatsFields(_, _, _, _, _)
StatsFields(dm, cur_sample, filelabel, fields, i) ==
    IF i > Len(fields) THEN dm
    ELSE LET key == fields[i][1]
             full_key == filelabel \o <<"-">> \o key
         IN StatsFields(MappingSet(dm, cur_sample, full_key,
                                   OneValueData(full_key, key, fields[i][2])),
                        cur_sample, filelabel, fields, i + 1)

\* the sample a general-stats file is recorded under: the first match
StatsSample(samples, file_name) ==
    IF Len(MatchingSamples(samples, file_name)) = 0 THEN Raise("IndexError")
    ELSE Ok(MatchingSamples(samples, file_name)[1])

\* a statement that may raise, followed by the rest of the block: an
\* exception leaves the block, a value goes on to the rest
Try(r, Rest(_)) == IF r.ok THEN Rest(r.val) ELSE r

\* for file_name, data in file_data.items()
RECURSIVE StatsFiles(_, _, _, _, _)
StatsFiles(dm, samples, mapping, file_data, i) ==
    IF i > Len(file_data) THEN Ok(dm)
    ELSE Try(StatsSample(samples, file_data[i][1]), LAMBDA cur_sample :
         Try(label_file(mapping, file_data[i][1]), LAMBDA filelabel :
         StatsFiles(StatsFields(dm, cur_sample, filelabel, file_data[i][2], 1),
                    samples, mapping, file_data, i + 1)))

\* for file_data in raw_data["report_general_stats_data"]
RECURSIVE ExtractGeneralStats(_, _, _, _, _)
ExtractGeneralStats(dm, samples, mapping, stats, i) ==
    IF i > Len(stats) THEN Ok(dm)
    ELSE Try(StatsFiles(dm, samples, mapping, stats[i], 1), LAMBDA next_dm :
         ExtractGeneralStats(next_dm, samples, mapping, stats, i + 1))

\* assert len(matching_samples) == 1
OneSample(samples, file_name) ==
    IF Len(MatchingSamples(samples, file_name)) # 1 THEN Raise("AssertionError")
    ELSE Ok(MatchingSamples(samples, file_name)[1])

\* bar graph: mqc_samples_to_samples[i] = (sample, label), for each file
RECURSIVE BarSamples(_, _, _, _, _)
BarSamples(acc, samples, mapping, files, i) ==
    IF i > Len(files) THEN Ok(acc)
    ELSE Try(OneSample(samples, files[i]), LAMBDA sample :
         Try(label_file(mapping, files[i]), LAMBDA filelabel :
         BarSamples(Append(acc, <<sample, filelabel>>), samples, mapping,
                    files, i + 1)))

\* f"{file_label}-{plot_name}-{sub_data['name']}"
BarKey(filelabel, plot_name, name) ==
    filelabel \o <<"-">> \o plot_name \o <<"-">> \o name

\* for i, value in enumerate(values): data_mapping[sample][key] = ...
RECURSIVE BarValues(_, _, _, _, _, _, _)
BarValues(dm, m2s, plot_name, units, name, values, i) ==
    IF i > Len(values) THEN Ok(dm)
    ELSE IF i > Len(m2s) THEN Raise("KeyError")
    ELSE BarValues(MappingSet(dm, m2s[i][1], BarKey(m2s[i][2], plot_name, name),
                              OneValueData(BarKey(m2s[i][2], plot_name, name),
                                           units, values[i])),
                   m2s, plot_name, units, name, values, i + 1)

\* for sub_data in data["datasets"][0]
RECURSIVE BarDatasets(_, _, _, _, _, _)
BarDatasets(dm, m2s, plot_name, units, subs, i) ==
    IF i > Len(subs) THEN Ok(dm)
    ELSE Try(BarValues(dm, m2s, plot_name, units, subs[i].name, subs[i].data, 1),
             LAMBDA next_dm :
         BarDatasets(next_dm, m2s, plot_name, units, subs, i + 1))

extract_from_bar_graph(data, plot_name, dm, samples, mapping) ==
    IF Len(data.samples) # 1 THEN Raise("AssertionError")
    ELSE Try(BarSamples(<<>>, samples, mapping, data.samples[1], 1), LAMBDA m2s :
         IF Len(data.datasets) # 1 THEN Raise("AssertionError")
         ELSE BarDatasets(dm, m2s, plot_name, data.config.ylab, data.datasets[1], 1))

\* "categories" in data["config"].keys()
IsCategorical(config) == "categories" \in DOMAIN config

\* str(bin) for bin in data["config"]["categories"]
CategoryBins(config) == [i \in 1..Len(config.categories) |->
                            PyStr(StrOfInt(config.categories[i]))]

\* the bins of the entry: the categories, or the indices of the [index, value]
\* pairs
TheseBins(config, values) ==
    IF IsCategorical(config) THEN CategoryBins(config)
    ELSE [k \in 1..Len(values) |-> PyInt(values[k][1])]

\* the (j, value) pairs the population loop runs over: zip(bins, values) for a
\* categorical plot, the [index, value] pairs themselves otherwise
XYPairs(config, values) ==
    IF IsCategorical(config)
    THEN [i \in 1..(IF Len(config.categories) < Len(values)
                    THEN Len(config.categories) ELSE Len(values))
            |-> <<PyStr(StrOfInt(config.categories[i])), values[i]>>]
    ELSE [i \in 1..Len(values) |-> <<PyInt(values[i][1]), values[i][2]>>]

\* for j, value in values: cur_data_mapping_entry.values[j] = float(value)
RECURSIVE XYValues(_, _, _)
XYValues(vals, pairs, i) ==
    IF i > Len(pairs) THEN vals
    ELSE XYValues(DictSet(vals, pairs[i][1], pairs[i][2]), pairs, i + 1)

\* f"{file_label}-{plot_name}" or f"{file_label}-{plot_name}-{data_label}"
XYKey(filelabel, plot_name, data_label) == filelabel \o <<"-">> \o plot_name \o data_label

\* the IndexedValuesData entry of one dataset entry
XYEntry(data_key, config, values) ==
    IndexedValuesData(data_key, config.ylab, TheseBins(config, values), config.xlab,
                      XYValues(<<>>, XYPairs(config, values), 1))

\* for dataset_entry in dataset
RECURSIVE XYEntries(_, _, _, _, _, _, _, _)
XYEntries(dm, samples, mapping, data, plot_name, data_label, dataset, i) ==
    IF i > Len(dataset) THEN Ok(dm)
    ELSE Try(OneSample(samples, dataset[i].name), LAMBDA sample :
         Try(label_file(mapping, dataset[i].name), LAMBDA filelabel :
         XYEntries(MappingSet(dm, sample, XYKey(filelabel, plot_name, data_label),
                              XYEntry(XYKey(filelabel, plot_name, data_label),
                                      data.config, dataset[i].data)),
                   samples, mapping, data, plot_name, data_label, dataset, i + 1)))

\* data_label: named by config.data_labels when the plot has several datasets
DataLabel(data, i) ==
    IF Len(data.datasets) > 1 THEN <<"-">> \o data.config.data_labels[i].name
    ELSE <<>>

\* for i, dataset in enumerate(data["datasets"])
RECURSIVE XYDatasets(_, _, _, _, _, _)
XYDatasets(dm, samples, mapping, data, plot_name, i) ==
    IF i > Len(data.datasets) THEN Ok(dm)
    ELSE Try(XYEntries(dm, samples, mapping, data, plot_name, DataLabel(data, i),
                       data.datasets[i], 1), LAMBDA next_dm :
         XYDatasets(next_dm, samples, mapping, data, plot_name, i + 1))

extract_from_xy_line_graph(data, plot_name, dm, samples, mapping) ==
    XYDatasets(dm, samples, mapping, data, plot_name, 1)

\* if data["plot_type"] == "bar_graph": ... elif "xy_line": ... else: raise
ExtractPlot(data, plot_name, dm, samples, mapping) ==
    IF data.plot_type = "bar_graph"
    THEN extract_from_bar_graph(data, plot_name, dm, samples, mapping)
    ELSE IF data.plot_type = "xy_line"
    THEN extract_from_xy_line_graph(data, plot_name, dm, samples, mapping)
    ELSE Raise("ValueError")

\* for plot_name, data in raw_data["report_plot_data"].items()
RECURSIVE ExtractPlots(_, _, _, _, _)
ExtractPlots(dm, samples, mapping, plots, i) ==
    IF i > Len(plots) THEN Ok(dm)
    ELSE Try(ExtractPlot(plots[i][2], plots[i][1], dm, samples, mapping),
             LAMBDA next_dm :
         ExtractPlots(next_dm, samples, mapping, plots, i + 1))

\* data_mapping = dict(data_mapping); for sample in samples:
\*     data_mapping[sample] = dict(data_mapping[sample])
LockMapping(dm, samples) ==
    IF \E i \in 1..Len(samples) : ~DictHas(dm, samples[i])
    THEN Raise("KeyError")
    ELSE Ok(dm)

extract_multiQC_data(raw_data, samples, mapping) ==
    Try(ExtractGeneralStats(<<>>, samples, mapping,
                            raw_data.report_general_stats_data, 1), LAMBDA gs :
    Try(ExtractPlots(gs, samples, mapping, raw_data.report_plot_data, 1), LAMBDA pl :
    LockMapping(pl, samples)))

\* a slip: the keys of self.data itself, which are the sample names
SampleWiseDataKeys_OfMapping(d, samples) == DictKeys(d)

\* self.sample_wise_data_keys = list(self.data[samples[0]].keys())
SampleWiseDataKeys(d, samples) == DictKeys(DictGet(d, samples[1]))

\* MultiQC.__init__: the fields of the constructed object, or the exception
MultiQC_init(raw_data, samples, mapping, point) ==
    IF point \notin OUTLIER_COMPARISION THEN Raise("ValueError")
    ELSE Try(extract_multiQC_data(raw_data, samples, mapping), LAMBDA d :
         IF Len(samples) = 0 THEN Raise("IndexError")
         ELSE Ok([samples |-> samples,
                  file_mapping_substrings |-> mapping,
                  outlier_comparision |-> point,
                  data |-> d,
                  sample_wise_data_keys |-> SampleWiseDataKeys(d, samples),
                  subsets |-> <<>>,
                  file_labels |-> [i \in 1..Len(mapping) |-> mapping[i][2]]]))

(***************************************************************************)
(* MultiQC.compile_subset                                                  *)
(***************************************************************************)

\* `compiled`: None, a list, or a defaultdict(list)
CompiledNone == [kind |-> "None"]
CompiledList(items) == [kind |-> "list", items |-> items]
CompiledDefaultDict(items) == [kind |-> "defaultdict", items |-> items]
CompiledDict(items) == [kind |-> "dict", items |-> items]

\* `not compiled`: None, [] and an empty defaultdict are all falsy
NotCompiled(c) == IF c.kind = "None" THEN TRUE ELSE c.items = <<>>

\* what a call of compile_subset did: its return value or exception, and the
\* (sample, key) lookups into self.data it performed, in order
Returned(v, reads) == [ok |-> TRUE, val |-> v, reads |-> reads]
Raised(e, reads) == [ok |-> FALSE, err |-> e, reads |-> reads]

\* a slip: the value is put in front of the list
AppendValue_InFront(items, value) == <<value>> \o items

\* compiled.append(data), on the list
AppendValue(items, value) == Append(items, value)

\* a slip: compiled[index] = [value]
BinAppend_Overwriting(items, index, value) == DictSet(items, index, <<value>>)

\* compiled[index].append(value), on the defaultdict(list)
BinAppend(items, index, value) ==
    LET old == IF DictHas(items, index) THEN DictGet(items, index) ELSE <<>>
    IN DictSet(items, index, Append(old, value))

\* for index, value in data.items(): compiled[index].append(value)
RECURSIVE AppendBins(_, _, _)
AppendBins(items, values, i) ==
    IF i > Len(values) THEN items
    ELSE AppendBins(BinAppend(items, values[i][1], values[i][2]), values, i + 1)

\* compiled[index].append(value), on a non-empty list of numbers: a str index
\* is no list index (TypeError); an int index outside -len..len-1 is out of
\* range (IndexError); inside it selects a number, which has no append
\* (AttributeError)
ListBinAppend(items, index) ==
    IF ~IsPyInt(index) THEN "TypeError"
    ELSE IF index.int >= Len(items) \/ index.int < -Len(items) THEN "IndexError"
    ELSE "AttributeError"

\* for sample in samples_subset
RECURSIVE CompileLoop(_, _, _, _, _, _)
CompileLoop(data, samples_subset, key, i, compiled, reads) ==
    IF i > Len(samples_subset)
    THEN Returned(IF compiled.kind = "defaultdict" THEN CompiledDict(compiled.items)
                  ELSE compiled, reads)
    ELSE LET sample == samples_subset[i]
             now == Append(reads, <<sample, key>>)
             d == DictGet(DictGet(data, sample), key)
         IN IF ~DictHas(DictGet(data, sample), key) THEN Raised("KeyError", now)
            ELSE IF d.type = "OneValueData"
            THEN LET c == IF NotCompiled(compiled) THEN CompiledList(<<>>) ELSE compiled
                 IN IF c.kind # "list" THEN Raised("AttributeError", now)
                    ELSE CompileLoop(data, samples_subset, key, i + 1,
                                     CompiledList(AppendValue(c.items, d.value)), now)
            ELSE IF d.type = "IndexedValuesData"
            THEN LET c == IF NotCompiled(compiled) THEN CompiledDefaultDict(<<>>)
                          ELSE compiled
                 IN IF c.kind # "defaultdict" /\ d.values # <<>>
                    THEN Raised(ListBinAppend(c.items, d.values[1][1]), now)
                    ELSE CompileLoop(data, samples_subset, key, i + 1,
                             IF c.kind = "defaultdict"
                             THEN CompiledDefaultDict(AppendBins(c.items, d.values, 1))
                             ELSE c, now)
            ELSE Raised("ValueError", now)

\* the first assert: its message f"... {samples}" names `samples`, which is
\* bound neither in compile_subset nor in the module, so building the message
\* of the failed assertion raises NameError
SubsetAssertion(samples, samples_subset) ==
    IF ToSet(samples_subset) \subseteq ToSet(samples) THEN "passed" ELSE "NameError"

\* a slip: the key is not checked
KeyAssertion_Missing(sample_wise_data_keys, key) == "passed"

\* the second assert: key in self.sample_wise_data_keys
KeyAssertion(sample_wise_data_keys, key) ==
    IF key \in ToSet(sample_wise_data_keys) THEN "passed" ELSE "AssertionError"

compile_subset(samples, data, sample_wise_data_keys, samples_subset, key) ==
    IF SubsetAssertion(samples, samples_subset) # "passed"
    THEN Raised(SubsetAssertion(samples, samples_subset), <<>>)
    ELSE IF KeyAssertion(sample_wise_data_keys, key) # "passed"
    THEN Raised(KeyAssertion(sample_wise_data_keys, key), <<>>)
    ELSE CompileLoop(data, samples_subset, key, 1, CompiledNone, <<>>)

(***************************************************************************)
(* statistics.stdev and statistics.median, as exact rationals <<p, q>>     *)
(* with q > 0 in lowest terms.  A standard deviation and a deviation score *)
(* are square roots of rationals and are represented by their squares.     *)
(***************************************************************************)
Abs(x) == IF x < 0 THEN -x ELSE x

RECURSIVE GCD(_, _)
GCD(a, b) == IF b = 0 THEN a ELSE GCD(b, a % b)

Frac(p, q) == LET g == GCD(Abs(p), Abs(q))
                  s == IF q < 0 THEN -1 ELSE 1
              IN <<(s * p) \div g, (s * q) \div g>>

RECURSIVE Sum(_)
Sum(xs) == IF xs = <<>> THEN 0 ELSE xs[1] + Sum(Tail(xs))

RECURSIVE SumSq(_)
SumSq(xs) == IF xs = <<>> THEN 0 ELSE xs[1] * xs[1] + SumSq(Tail(xs))

\* sorted(xs), by insertion
RECURSIVE Insert(_, _)
Insert(x, xs) == IF xs = <<>> THEN <<x>>
                 ELSE IF x <= xs[1] THEN <<x>> \o xs
                 ELSE <<xs[1]>> \o Insert(x, Tail(xs))

RECURSIVE Sorted(_)
Sorted(xs) == IF xs = <<>> THEN <<>> ELSE Insert(xs[1], Sorted(Tail(xs)))

\* statistics.stdev(xs): the sample standard deviation, given by its square
\* (the sample variance); fewer than two data points raise StatisticsError
stdev(xs) ==
    LET n == Len(xs)
    IN IF n < 2 THEN Raise("StatisticsError")
       ELSE Ok(Frac(n * SumSq(xs) - Sum(xs) * Sum(xs), n * (n - 1)))

\* statistics.median(xs): the middle value, or the mean of the two middle values
median(xs) ==
    LET n == Len(xs)
        s == Sorted(xs)
    IN IF n = 0 THEN Raise("StatisticsError")
       ELSE IF n % 2 = 1 THEN Ok(Frac(s[(n + 1) \div 2], 1))
       ELSE Ok(Frac(s[n \div 2] + s[n \div 2 + 1], 2))

\* _stdev == 0
IsZero(sd) == sd[1] = 0

\* abs(value - _median) / _stdev, given by its square
StdevsFromMedian(value, med, sd) ==
    LET num == value * med[2] - med[1]
    IN Frac(num * num * sd[2], med[2] * med[2] * sd[1])

\* a slip: stdevs_from_median < deviation
Exceeds_Reversed(score, deviation) ==
    /\ deviation[1] > 0
    /\ score[1] * deviation[2] * deviation[2] < deviation[1] * deviation[1] * score[2]

\* a slip: stdevs_from_median >= deviation
Exceeds_OrEquals(score, deviation) ==
    \/ deviation[1] <= 0
    \/ score[1] * deviation[2] * deviation[2] >= deviation[1] * deviation[1] * score[2]

\* stdevs_from_median > deviation, for a rational deviation <<p, q>>
Exceeds(score, deviation) ==
    \/ deviation[1] < 0
    \/ score[1] * deviation[2] * deviation[2] > deviation[1] * deviation[1] * score[2]

(***************************************************************************)
(* MultiQC.detect_outliers                                                 *)
(***************************************************************************)

\* the subset_samples argument: None (the default) or a list
NoneArg == [given |-> FALSE]
ListArg(l) == [given |-> TRUE, list |-> l]

\* if not subset_samples: subset_samples = self.samples
EffectiveSubset(samples, subset_arg) ==
    IF ~subset_arg.given THEN samples
    ELSE IF subset_arg.list = <<>> THEN samples
    ELSE subset_arg.list

\* for i, value in enumerate(values): if stdevs_from_median > deviation:
\*     outliers.append((label(i), stdevs_from_median))
RECURSIVE ScoreLoop(_, _, _, _, _, _, _)
ScoreLoop(outliers, values, med, sd, deviation, labels, i) ==
    IF i > Len(values) THEN outliers
    ELSE LET stdevs_from_median == StdevsFromMedian(values[i], med, sd)
         IN ScoreLoop(IF Exceeds(stdevs_from_median, deviation)
                      THEN Append(outliers, <<labels[i], stdevs_from_median>>)
                      ELSE outliers,
                      values, med, sd, deviation, labels, i + 1)

\* the branch for one value per sample
OutliersOfList(values, deviation, subset_samples) ==
    LET sd == stdev(values)
        med == median(values)
    IN IF ~sd.ok THEN sd
       ELSE IF ~med.ok THEN med
       ELSE IF IsZero(sd.val) THEN Ok(<<>>)
       ELSE Ok(ScoreLoop(<<>>, values, med.val, sd.val, deviation, subset_samples, 1))

\* values.extend([0]*implicit_zeroes)
ZeroPadded(values, subset_samples) ==
    LET implicit_zeroes == Len(subset_samples) - Len(values)
    IN IF implicit_zeroes > 0
       THEN values \o [k \in 1..implicit_zeroes |-> 0]
       ELSE values

\* f"{subset_samples[i]}:{index}" for every position i
BinLabels(subset_samples, index) ==
    [i \in 1..Len(subset_samples) |-> subset_samples[i] \o <<":">> \o StrOf(index)]

RECURSIVE OutliersOfDict(_, _, _, _, _)

\* a slip: `return outliers`, as in the branch for one value per sample
ZeroStdevBin_Returning(outliers, items, deviation, subset_samples, b) ==
    Ok(outliers)

\* a bin whose standard deviation is zero: `continue` with the next bin
ZeroStdevBin(outliers, items, deviation, subset_samples, b) ==
    OutliersOfDict(outliers, items, deviation, subset_samples, b + 1)

\* for index, values in values.items()
OutliersOfDict(outliers, items, deviation, subset_samples, b) ==
    IF b > Len(items) THEN Ok(outliers)
    ELSE LET index == items[b][1]
             values == ZeroPadded(items[b][2], subset_samples)
             sd == stdev(values)
             med == median(values)
         IN IF ~sd.ok THEN sd
            ELSE IF ~med.ok THEN med
            ELSE IF IsZero(sd.val)
            THEN ZeroStdevBin(outliers, items, deviation, subset_samples, b)
            ELSE OutliersOfDict(
                     ScoreLoop(outliers, values, med.val, sd.val, deviation,
                               BinLabels(subset_samples, index), 1),
                     items, deviation, subset_samples, b + 1)

detect_outliers(samples, data, sample_wise_data_keys, key, deviation, subset_arg) ==
    LET subset_samples == EffectiveSubset(samples, subset_arg)
        values == compile_subset(samples, data, sample_wise_data_keys,
                                 subset_samples, key)
    IN IF ~values.ok THEN Raise(values.err)
       ELSE IF values.val.kind = "list"
       THEN OutliersOfList(values.val.items, deviation, subset_samples)
       ELSE IF values.val.kind = "dict"
       THEN OutliersOfDict(<<>>, values.val.items, deviation, subset_samples, 1)
       ELSE Raise("ValueError")

(***************************************************************************)
(* What compile_subset and detect_outliers write.  Each mutating statement *)
(* of the two methods is a write into an object: one the call created      *)
(* (compiled, a list of compiled, outliers) or one of self.data.           *)
(***************************************************************************)

\* a write into an object the call created
LocalWrite(obj) == [stored |-> FALSE, obj |-> obj]

\* a write self.data[sample][key].values[index] = value
StoreWrite(sample, key, index, value) ==
    [stored |-> TRUE, sample |-> sample, key |-> key, index |-> index,
     value |-> value]

\* compiled.append(data) / compiled[index].append(value): one write per
\* sample that was aggregated, into the list or defaultdict that
\* compile_subset created; the values appended are numbers
CompileWrites(r) ==
    [i \in 1..(IF r.ok THEN Len(r.reads) ELSE Len(r.reads) - 1) |->
        LocalWrite("compiled")]

\* values.extend([0]*implicit_zeroes): `values` is the list that
\* compile_subset made for the bin (compiled[index], of defaultdict(list)),
\* not an object of self.data
PaddingWrites(data, key, subset_samples, index, values) ==
    IF Len(subset_samples) - Len(values) # 0
    THEN <<LocalWrite("values")>>
    ELSE <<>>

\* the bins the dict branch reaches: stdev raises at the first bin when it
\* has fewer than two values, after the bin was padded
BinsReached(items, subset_samples) ==
    IF Len(subset_samples) < 2 /\ Len(items) > 0 THEN 1 ELSE Len(items)

RECURSIVE BinWrites(_, _, _, _, _, _)
BinWrites(data, key, subset_samples, items, b, last) ==
    IF b > last THEN <<>>
    ELSE PaddingWrites(data, key, subset_samples, items[b][1], items[b][2])
         \o BinWrites(data, key, subset_samples, items, b + 1, last)

\* the writes of detect_outliers: those of compile_subset, the padding of
\* the bins, and outliers.append for every outlier
DetectWrites(data, key, subset_samples, values, outcome) ==
    CompileWrites(values)
    \o (IF values.ok /\ values.val.kind = "dict"
        THEN BinWrites(data, key, subset_samples, values.val.items, 1,
                       BinsReached(values.val.items, subset_samples))
        ELSE <<>>)
    \o (IF outcome.ok THEN [i \in 1..Len(outcome.val) |-> LocalWrite("outliers")]
        ELSE <<>>)

\* one write applied to self.data
StoreWritten(data, w) ==
    IF ~w.stored THEN data
    ELSE MappingSet(data, w.sample, w.key,
             [DictGet(DictGet(data, w.sample), w.key) EXCEPT
                 !.values = DictSet(@, w.index, w.value)])

\* self.data after the writes of a call
RECURSIVE StoreAfter(_, _, _)
StoreAfter(data, writes, i) ==
    IF i > Len(writes) THEN data
    ELSE StoreAfter(StoreWritten(data, writes[i]), writes, i + 1)

(***************************************************************************)
(* The inputs the model draws from.                                        *)
(***************************************************************************)

\* sample identifiers: three configured ones, and one that is not configured
SampleA == <<"A">>
SampleB == <<"B">>
SampleC == <<"C">>
SampleZ == <<"Z">>
SAMPLES == <<SampleA, SampleB, SampleC>>

\* file-name substrings and labels, as in the default {"_R1_": "forward", "_R2": "reverse"}
R1 == <<"R", "1">>
R2 == <<"R", "2">>
Forward == <<"f", "w", "d">>
Reverse == <<"r", "e", "v">>
DefaultMapping == <<<<R1, Forward>>, <<R2, Reverse>>>>
\* a mapping whose first label is the empty string
EmptyLabelMapping == <<<<R1, <<>>>>, <<R2, Reverse>>>>
\* a mapping that matches no file name (test_bad_substring_mapping)
UnrealMapping == <<<<<<"U">>, <<"x">>>>>>
Mappings == {DefaultMapping, EmptyLabelMapping, UnrealMapping}

\* file names: one sample and one substring; two samples; no sample; two
\* substrings; no substring
FileA1 == SampleA \o R1
FileB1 == SampleB \o R1
FileC1 == SampleC \o R1
FileB2 == SampleB \o R2
FileC2 == SampleC \o R2
FileAB1 == SampleA \o SampleB \o R1
FileX1 == <<"X">> \o R1
FileA12 == SampleA \o R1 \o R2
FileA3 == SampleA \o <<"R", "3">>
FileNames == {FileA1, FileB1, FileC1, FileB2, FileC2, FileAB1, FileX1, FileA12,
              FileA3}

\* the files of a report section, in order: one file per sample, which the
\* model fills with every combination of values, and the lists that exercise
\* the file-name rules, which it fills with the values of EdgeVals
MainFiles == <<FileA1, FileB1, FileC1>>
EdgePlotFileLists == {<<FileB1, FileA1, FileC1>>, <<FileAB1, FileB1, FileC1>>,
                      <<FileX1, FileB1, FileC1>>, <<FileA1, FileB1>>}
EdgeStatsFileLists == EdgePlotFileLists \cup
                      {<<FileA1, FileB1, FileC2>>, <<FileA12, FileB2, FileC2>>,
                       <<FileA3, FileB1, FileC1>>, <<>>}

Values == 0..MaxVal
Bins == {1, 2}

ValsFor(files) == [1..Len(files) -> Values]
EdgeVals(files) == {[i \in 1..Len(files) |-> 0],
                    [i \in 1..Len(files) |-> i % (MaxVal + 1)]}

\* one sample's line of an xy plot: [index, value] pairs at increasing
\* indices. A bin a sample has no pair for is what detect_outliers pads
\* with 0, so the lines hold the values 1 and MaxVal.
CurveValues == {1, MaxVal}
Curves == {<<>>} \cup {<<<<b, v>>>> : b \in Bins, v \in CurveValues}
                 \cup {<<<<1, v>>, <<2, w>>>> : v \in CurveValues, w \in CurveValues}
EdgeCurves(files) == {[i \in 1..Len(files) |-> <<<<1, 1>>>>],
                      [i \in 1..Len(files) |-> <<<<1, 1>>, <<2, 1 + (i % MaxVal)>>>>]}

\* one sample's line of a categorical xy plot: values for the first categories
CategoryLines == {<<>>, <<MaxVal>>, <<1, MaxVal>>}

Field == <<"g">>
PlotName == <<"p">>
BarName == <<"u">>
YLab == <<"y">>
XLab == <<"x">>

NoPlots == <<>>
NoStats == <<>>

Report(stats, plots) ==
    [report_general_stats_data |-> stats, report_plot_data |-> plots]

\* general stats: one module's dict, file name -> {field: value}
StatsOf(files, vals) ==
    <<[i \in 1..Len(files) |-> <<files[i], <<<<Field, vals[i]>>>>>>]>>

XYPlot(files, lines, config) ==
    <<<<PlotName, [plot_type |-> "xy_line",
                   datasets |-> <<[i \in 1..Len(files) |->
                                     [name |-> files[i], data |-> lines[i]]]>>,
                   config |-> config]>>>>

\* an xy plot with two datasets, named by config.data_labels
XYPlot2(files, lines) ==
    LET ds == [i \in 1..Len(files) |-> [name |-> files[i], data |-> lines[i]]]
    IN <<<<PlotName, [plot_type |-> "xy_line",
                      datasets |-> <<ds, ds>>,
                      config |-> [ylab |-> YLab, xlab |-> XLab,
                                  data_labels |-> <<[name |-> <<"c">>],
                                                    [name |-> <<"q">>]>>]]>>>>

BarPlot(sampleGroups, datasetGroups) ==
    <<<<PlotName, [plot_type |-> "bar_graph", samples |-> sampleGroups,
                   datasets |-> datasetGroups, config |-> [ylab |-> YLab]]>>>>

BarGroup(vals) == <<[name |-> BarName, data |-> vals]>>

ScatterPlot == <<<<PlotName, [plot_type |-> "scatter"]>>>>

XYConfig == [ylab |-> YLab, xlab |-> XLab]
CategoricalConfig == [ylab |-> YLab, xlab |-> XLab, categories |-> <<1, 2>>]

\* reports whose metrics are scalars: general stats, bar graphs, both; and the
\* malformed bar graphs and the unknown plot type
ScalarReports ==
    {Report(StatsOf(MainFiles, v), NoPlots) : v \in ValsFor(MainFiles)}
    \cup {Report(StatsOf(f, v), NoPlots) : <<f, v>> \in
        UNION {{<<f, v>> : v \in EdgeVals(f)} : f \in EdgeStatsFileLists}}
    \cup {Report(NoStats, BarPlot(<<f>>, <<BarGroup(v)>>)) : <<f, v>> \in
        UNION {{<<f, v>> : v \in EdgeVals(f)} : f \in EdgePlotFileLists \cup {MainFiles}}}
    \cup {Report(StatsOf(MainFiles, v), BarPlot(<<MainFiles>>, <<BarGroup(v)>>)) :
             v \in EdgeVals(MainFiles)}
    \cup {Report(NoStats, BarPlot(<<MainFiles, MainFiles>>, <<BarGroup(<<0, 0, 0>>)>>)),
          Report(NoStats, BarPlot(<<MainFiles>>,
                                  <<BarGroup(<<0, 0, 0>>), BarGroup(<<0, 0, 0>>)>>)),
          Report(NoStats, BarPlot(<<MainFiles>>, <<BarGroup(<<0, 0, 0, 0>>)>>)),
          Report(StatsOf(MainFiles, <<0, 0, 0>>), ScatterPlot)}

\* reports with one xy plot of [index, value] lines, in one or two datasets
LineReports ==
    {Report(NoStats, XYPlot(MainFiles, l, XYConfig)) : l \in [1..3 -> Curves]}
    \cup {Report(NoStats, XYPlot(f, l, XYConfig)) : <<f, l>> \in
        UNION {{<<f, l>> : l \in EdgeCurves(f)} : f \in EdgePlotFileLists}}
    \cup {Report(NoStats, XYPlot2(MainFiles, l)) : l \in EdgeCurves(MainFiles)}

\* reports with one categorical xy plot
CategoricalReports ==
    {Report(NoStats, XYPlot(MainFiles, l, CategoricalConfig)) :
        l \in [1..3 -> CategoryLines]}
    \cup {Report(NoStats, XYPlot(f, l, CategoricalConfig)) : <<f, l>> \in
        UNION {{<<f, l>> : l \in [1..Len(f) -> {<<1, MaxVal>>}]} :
                  f \in EdgePlotFileLists}}

\* general stats whose field has the name of the plot
PlotFieldStats(files, vals) ==
    <<[i \in 1..Len(files) |-> <<files[i], <<<<PlotName, vals[i]>>>>>>]>>

\* the lines and the files of the plot of a mixed report
MixedCurves == {<<>>, <<<<1, 1>>>>, <<<<0, MaxVal>>>>, <<<<1, MaxVal>>, <<2, 1>>>>}
MixedPlotFiles == {<<FileB1>>, <<FileA1>>, <<FileC1, FileB1>>}

\* reports whose general-stats field and xy plot give the same key: the plot
\* loop runs after the general-stats loop and overwrites the entry of the
\* samples the plot has a line for, so that one key holds a OneValueData for
\* some samples and an IndexedValuesData for the others
MixedReports ==
    {Report(PlotFieldStats(MainFiles, v), XYPlot(f, l, XYConfig)) : <<v, f, l>> \in
        UNION {{<<v, f, l>> : v \in {<<0, 1, MaxVal>>, <<1, 1, 1>>},
                              l \in [1..Len(f) -> MixedCurves]} : f \in MixedPlotFiles}}

\* the comparison point is validated at construction and not read afterwards
\* (__init__, the try block): the scalar and line reports are built with
\* "median" and an unsupported point, the categorical ones with "mean" too
MedianOrBad == {"median", "mode"}
OutlierPoints == OUTLIER_COMPARISION \cup {"mode"}

\* lists over `ids` of length at most n
RECURSIVE ListsUpTo(_, _)
ListsUpTo(ids, n) ==
    IF n = 0 THEN {<<>>}
    ELSE LET shorter == ListsUpTo(ids, n - 1)
         IN shorter \cup {Append(l, x) : l \in shorter, x \in ids}

\* sample subsets: every list of configured samples up to MaxSubsetLen (with
\* repeats, and the empty list), and lists that hold an unconfigured sample
SubsetInputs ==
    ListsUpTo({SampleA, SampleB, SampleC}, MaxSubsetLen)
    \cup {<<SampleZ>>, <<SampleA, SampleZ>>, <<SampleZ, SampleB>>}

\* deviation thresholds, as rationals <<p, q>>
Thresholds == {<<0, 1>>, <<1, 2>>, <<1, 1>>}

\* a key no report stores, and the subsets it is asked with
UnknownKey == <<"n", "o">>
UnknownKeySubsets == {<<>>, <<SampleA>>, <<SampleB, SampleA>>, <<SampleZ>>}

(***************************************************************************)
(* The state: the fields of the MultiQC object and the last call made.     *)
(***************************************************************************)
VARIABLES pc, samples, file_mapping_substrings, outlier_comparision, data,
          sample_wise_data_keys, subsets, file_labels, call

self == <<samples, file_mapping_substrings, outlier_comparision, data,
          sample_wise_data_keys, subsets, file_labels>>
vars == <<pc, samples, file_mapping_substrings, outlier_comparision, data,
          sample_wise_data_keys, subsets, file_labels, call>>

\* every metric key stored under some sample
StoredKeys == UNION {ToSet(DictKeys(data[i][2])) : i \in 1..Len(data)}

Init ==
    /\ pc = "new"
    /\ samples = <<>>
    /\ file_mapping_substrings = <<>>
    /\ outlier_comparision = ""
    /\ data = <<>>
    /\ sample_wise_data_keys = <<>>
    /\ subsets = <<>>
    /\ file_labels = <<>>
    /\ call = [op |-> "none"]

\* MultiQC(multiQC_json, samples, file_mapping_substrings, outlier_comparision_point)
Construct(reports, points) ==
    /\ pc = "new"
    /\ \E raw_data \in reports, mapping \in Mappings, point \in points :
       \E r \in {MultiQC_init(raw_data, SAMPLES, mapping, point)} :
          /\ call' = [op |-> "__init__", raw_data |-> raw_data,
                      samples |-> SAMPLES, mapping |-> mapping, point |-> point,
                      outcome |-> IF r.ok THEN [ok |-> TRUE] ELSE r]
          /\ IF r.ok
             THEN /\ pc' = "constructed"
                  /\ samples' = r.val.samples
                  /\ file_mapping_substrings' = r.val.file_mapping_substrings
                  /\ outlier_comparision' = r.val.outlier_comparision
                  /\ data' = r.val.data
                  /\ sample_wise_data_keys' = r.val.sample_wise_data_keys
                  /\ subsets' = r.val.subsets
                  /\ file_labels' = r.val.file_labels
             ELSE /\ pc' = "failed"
                  /\ UNCHANGED self

\* the fields neither compile_subset nor detect_outliers has a statement for
others == <<samples, file_mapping_substrings, outlier_comparision,
            sample_wise_data_keys, subsets, file_labels>>

\* mqc.compile_subset(samples_subset, key)
CompileSubset ==
    /\ pc = "idle"
    /\ \E <<samples_subset, key>> \in
             (SubsetInputs \X StoredKeys) \cup (UnknownKeySubsets \X {UnknownKey}) :
       \E r \in {compile_subset(samples, data, sample_wise_data_keys,
                                samples_subset, key)} :
          /\ call' = [op |-> "compile_subset", samples_subset |-> samples_subset,
                      key |-> key, outcome |-> r]
          /\ data' = StoreAfter(data, CompileWrites(r), 1)
    /\ pc' = "called"
    /\ UNCHANGED others

\* mqc.detect_outliers(key, deviation, subset_samples)
DetectOutliers ==
    /\ pc = "idle"
    /\ \E deviation \in Thresholds, <<key, subset_arg>> \in
             (StoredKeys \X ({NoneArg} \cup {ListArg(l) : l \in SubsetInputs}))
             \cup ({UnknownKey} \X
                     ({NoneArg} \cup {ListArg(l) : l \in UnknownKeySubsets})) :
       \E subset_samples \in {EffectiveSubset(samples, subset_arg)} :
       \E values \in {compile_subset(samples, data, sample_wise_data_keys,
                                     subset_samples, key)} :
       \E r \in {detect_outliers(samples, data, sample_wise_data_keys,
                                 key, deviation, subset_arg)} :
          /\ call' = [op |-> "detect_outliers", key |-> key,
                      deviation |-> deviation, subset_samples |-> subset_arg,
                      outcome |-> r]
          /\ data' = StoreAfter(data, DetectWrites(data, key, subset_samples,
                                                   values, r), 1)
    /\ pc' = "called"
    /\ UNCHANGED others

\* mqc._label_file(filename)
LabelFile ==
    /\ pc = "idle"
    /\ \E filename \in FileNames :
         call' = [op |-> "_label_file", filename |-> filename,
                  outcome |-> label_file(file_mapping_substrings, filename)]
    /\ pc' = "called"
    /\ UNCHANGED self

\* the caller takes the result of the last call; the object is ready for the next
Return ==
    /\ pc \in {"constructed", "called"}
    /\ pc' = "idle"
    /\ call' = [op |-> "none"]
    /\ UNCHANGED self

\* construction from each family of reports
ConstructScalar == Construct(ScalarReports, MedianOrBad)
ConstructLines == Construct(LineReports, MedianOrBad)
ConstructCategorical == Construct(CategoricalReports, OutlierPoints)
ConstructMixed == Construct(MixedReports, MedianOrBad)

Next == \/ ConstructScalar
        \/ ConstructLines
        \/ ConstructCategorical
        \/ ConstructMixed
        \/ CompileSubset
        \/ DetectOutliers
        \/ LabelFile
        \/ Return

Spec == Init /\ [][Next]_vars

(***************************************************************************)
(* Vocabulary of the properties.                                           *)
(***************************************************************************)

\* the last step was a call of method `op`, whose result is in call.outcome
IsCall(op) == pc = "called" /\ call.op = op

\* every sample of the list is a configured sample
Configured(subset) == ToSet(subset) \subseteq ToSet(samples)

StoredFor(sample, key) == DictHas(DictGet(data, sample), key)
MetricOf(sample, key) == DictGet(DictGet(data, sample), key)
KeySetOf(sample) == ToSet(DictKeys(DictGet(data, sample)))

\* `key` is a discovered key that every sample of `subset` stores with a
\* metric of type `type`
KeyOfType(subset, key, type) ==
    /\ key \in ToSet(sample_wise_data_keys)
    /\ \A i \in 1..Len(subset) :
          StoredFor(subset[i], key) /\ MetricOf(subset[i], key).type = type

\* the k-th smallest member of a set of indices
KthIndex(I, k) == CHOOSE i \in I : Cardinality({j \in I : j < i}) = k - 1

\* the file names of a report, over all its sections
PlotFiles(d) ==
    IF d.plot_type = "bar_graph"
    THEN UNION {ToSet(d.samples[g]) : g \in 1..Len(d.samples)}
    ELSE IF d.plot_type = "xy_line"
    THEN UNION {{d.datasets[g][e].name : e \in 1..Len(d.datasets[g])} :
                   g \in 1..Len(d.datasets)}
    ELSE {}

StatsFiles_(raw) ==
    UNION {ToSet(DictKeys(raw.report_general_stats_data[m])) :
              m \in 1..Len(raw.report_general_stats_data)}

ReportFiles(raw) ==
    StatsFiles_(raw) \cup
    UNION {PlotFiles(raw.report_plot_data[p][2]) : p \in 1..Len(raw.report_plot_data)}

\* the configured substrings that occur in a file name
Hits(mapping, filename) ==
    {i \in 1..Len(mapping) : IsSubstring(mapping[i][1], filename)}

\* every file name of the report matches one sample and one label
WellMatched(raw, smpls, mapping) ==
    \A f \in ReportFiles(raw) :
        /\ Len(MatchingSamples(smpls, f)) = 1
        /\ Cardinality(Hits(mapping, f)) = 1

\* the labelled metrics the report records for a sample: (label, field) of
\* the general stats, (label, plot, bar) of a bar graph, (label, plot,
\* dataset) of an xy plot
RecordedFor(raw, mapping, s) ==
    LET stats == raw.report_general_stats_data
        plots == raw.report_plot_data
        lab(f) == label_file(mapping, f).val
        OfPlot(name, d) ==
            IF d.plot_type = "bar_graph"
            THEN {<<"bar", name, lab(d.samples[1][i]), d.datasets[1][e].name>> :
                     <<i, e>> \in {ie \in (1..Len(d.samples[1])) \X (1..Len(d.datasets[1])) :
                                     /\ IsSubstring(s, d.samples[1][ie[1]])
                                     /\ ie[1] <= Len(d.datasets[1][ie[2]].data)}}
            ELSE UNION {{<<"xy", name, lab(d.datasets[g][e].name), g>> :
                           e \in {x \in 1..Len(d.datasets[g]) :
                                    IsSubstring(s, d.datasets[g][x].name)}} :
                        g \in 1..Len(d.datasets)}
    IN UNION {UNION {{<<"stats", lab(stats[m][e][1]), stats[m][e][2][k][1]>> :
                         k \in 1..Len(stats[m][e][2])} :
                     e \in {x \in 1..Len(stats[m]) : IsSubstring(s, stats[m][x][1])}} :
              m \in 1..Len(stats)}
       \cup UNION {OfPlot(plots[p][1], plots[p][2]) : p \in 1..Len(plots)}

\* the report records the same labelled metrics for every configured sample
UniformReport(raw, smpls, mapping) ==
    \A i \in 1..Len(smpls) :
        RecordedFor(raw, mapping, smpls[i]) = RecordedFor(raw, mapping, smpls[1])

(***************************************************************************)
(* C1.                                                                     *)
(***************************************************************************)

\* C1 as stated: after a successful construction from a report whose file
\* names each match one sample and one label, every configured sample has
\* exactly the metric keys of sample_wise_data_keys.
C1_AsStated ==
    (pc = "constructed" /\ WellMatched(call.raw_data, call.samples, call.mapping))
    => \A i \in 1..Len(samples) : KeySetOf(samples[i]) = ToSet(sample_wise_data_keys)

\* C1, amended: after a successful construction the first configured sample
\* has exactly the metric keys of sample_wise_data_keys, and so has every
\* configured sample when the report (its file names each matching one
\* sample and one label) records the same labelled metrics for every sample.
C1_UniformSchema ==
    pc = "constructed" =>
      /\ KeySetOf(samples[1]) = ToSet(sample_wise_data_keys)
      /\ (/\ WellMatched(call.raw_data, call.samples, call.mapping)
          /\ UniformReport(call.raw_data, call.samples, call.mapping))
         => \A i \in 1..Len(samples) :
               KeySetOf(samples[i]) = ToSet(sample_wise_data_keys)

\* a uniform, well-matched report was loaded and gave every sample two keys
C1_Witness ==
    /\ pc = "constructed"
    /\ WellMatched(call.raw_data, call.samples, call.mapping)
    /\ UniformReport(call.raw_data, call.samples, call.mapping)
    /\ Len(sample_wise_data_keys) = 2
    /\ \A i \in 1..Len(samples) : Cardinality(KeySetOf(samples[i])) = 2

(***************************************************************************)
(* C2.                                                                     *)
(***************************************************************************)

\* the result is the list of the samples' values, in subset order
IsValueList(outcome, subset, key) ==
    /\ outcome.ok
    /\ outcome.val.kind = "list"
    /\ Len(outcome.val.items) = Len(subset)
    /\ \A i \in 1..Len(subset) :
          outcome.val.items[i] = MetricOf(subset[i], key).value

\* C2 as stated: for every list of configured samples, the empty list
\* included, compile_subset on a OneValueData key returns the list of
\* values, of the length of the subset.
C2_AsStated ==
    (/\ IsCall("compile_subset")
     /\ Configured(call.samples_subset)
     /\ KeyOfType(call.samples_subset, call.key, "OneValueData"))
    => IsValueList(call.outcome, call.samples_subset, call.key)

\* C2, amended: for every non-empty list of configured samples (repeats
\* allowed) compile_subset on a OneValueData key returns the list whose i-th
\* element is data[subset[i]][key].value; for the empty list it returns None.
C2_ScalarAggregate ==
    (/\ IsCall("compile_subset")
     /\ Configured(call.samples_subset)
     /\ KeyOfType(call.samples_subset, call.key, "OneValueData"))
    => IF call.samples_subset = <<>>
       THEN call.outcome.ok /\ call.outcome.val = CompiledNone
       ELSE IsValueList(call.outcome, call.samples_subset, call.key)

\* a scalar key was compiled over a list with a repeated sample and two
\* different values
C2_Witness ==
    /\ IsCall("compile_subset")
    /\ call.outcome.ok
    /\ call.outcome.val.kind = "list"
    /\ Len(call.samples_subset) = 3
    /\ call.samples_subset[1] = call.samples_subset[3]
    /\ call.outcome.val.items[1] # call.outcome.val.items[2]

(***************************************************************************)
(* C3.                                                                     *)
(***************************************************************************)

\* the bin labels of a sample's IndexedValuesData
BinsOf(sample, key) == ToSet(DictKeys(MetricOf(sample, key).values))

\* the result maps every bin of the subset's samples to the values of the
\* samples that have the bin, in subset order
IsBinMapping(outcome, subset, key) ==
    /\ outcome.ok
    /\ outcome.val.kind = "dict"
    /\ ToSet(DictKeys(outcome.val.items)) =
          UNION {BinsOf(subset[i], key) : i \in 1..Len(subset)}
    /\ \A b \in ToSet(DictKeys(outcome.val.items)) :
          LET having == {i \in 1..Len(subset) : b \in BinsOf(subset[i], key)}
              list == DictGet(outcome.val.items, b)
          IN /\ Len(list) = Cardinality(having)
             /\ \A k \in 1..Len(list) :
                   list[k] = DictGet(MetricOf(subset[KthIndex(having, k)], key).values, b)

\* C3 as stated: for every list of configured samples compile_subset on an
\* IndexedValuesData key returns the mapping from the union of the samples'
\* bins to the values of the samples that have the bin, in subset order.
C3_AsStated ==
    (/\ IsCall("compile_subset")
     /\ Configured(call.samples_subset)
     /\ KeyOfType(call.samples_subset, call.key, "IndexedValuesData"))
    => IsBinMapping(call.outcome, call.samples_subset, call.key)

\* C3, amended: the same for every non-empty list of configured samples; for
\* the empty list compile_subset returns None, not a mapping.
C3_IndexedAggregate ==
    (/\ IsCall("compile_subset")
     /\ Configured(call.samples_subset)
     /\ KeyOfType(call.samples_subset, call.key, "IndexedValuesData"))
    => IF call.samples_subset = <<>>
       THEN call.outcome.ok /\ call.outcome.val = CompiledNone
       ELSE IsBinMapping(call.outcome, call.samples_subset, call.key)

\* an indexed key was compiled over samples of which one lacks a bin that
\* another has: the aggregate has two bins with lists of different length
C3_Witness ==
    /\ IsCall("compile_subset")
    /\ call.outcome.ok
    /\ call.outcome.val.kind = "dict"
    /\ Len(call.samples_subset) = 3
    /\ Len(call.outcome.val.items) = 2
    /\ Len(call.outcome.val.items[1][2]) = 3
    /\ Len(call.outcome.val.items[2][2]) = 1

(***************************************************************************)
(* C4 and C5.                                                              *)
(***************************************************************************)

\* C4 as stated: compile_subset with a sample that is not configured fails
\* with the failed subset assertion (AssertionError), for every key.
C4_AsStated ==
    (IsCall("compile_subset") /\ ~Configured(call.samples_subset))
    => (~call.outcome.ok /\ call.outcome.err = "AssertionError")

\* C5: compile_subset with configured samples and a key that is not in
\* sample_wise_data_keys fails with the failed key assertion
\* (AssertionError) before any sample's data is read.
C5_UnknownKey ==
    (/\ IsCall("compile_subset")
     /\ Configured(call.samples_subset)
     /\ call.key \notin ToSet(sample_wise_data_keys))
    => /\ ~call.outcome.ok
       /\ call.outcome.err = "AssertionError"
       /\ call.outcome.reads = <<>>

\* compile_subset was called on configured samples with a key that some
\* sample stores but that is not in sample_wise_data_keys
C5_Witness ==
    /\ IsCall("compile_subset")
    /\ Configured(call.samples_subset)
    /\ call.samples_subset # <<>>
    /\ call.key \notin ToSet(sample_wise_data_keys)
    /\ \E i \in 1..Len(call.samples_subset) : StoredFor(call.samples_subset[i], call.key)

(***************************************************************************)
(* C6, C7 and C10: detect_outliers.                                        *)
(***************************************************************************)

\* the subset the last detect_outliers call scored, and what compile_subset
\* returns for it
ScoredSubset == EffectiveSubset(samples, call.subset_samples)
Aggregate == compile_subset(samples, data, sample_wise_data_keys, ScoredSubset, call.key)

\* rationals <<p, q>> with q > 0
LessQ(a, b) == a[1] * b[2] < b[1] * a[2]

AllEqual(xs) == \A i, j \in 1..Len(xs) : xs[i] = xs[j]

\* C6: detect_outliers is monotonic in the threshold: for a fixed store, key
\* and subset, every outlier (label and score) returned at a threshold is
\* returned at every lower threshold, for scalar and for indexed metrics.
C6_Monotonic ==
    (IsCall("detect_outliers") /\ call.outcome.ok)
    => \A d1 \in Thresholds :
          LessQ(d1, call.deviation)
          => LET lower == detect_outliers(samples, data, sample_wise_data_keys,
                                          call.key, d1, call.subset_samples)
             IN lower.ok /\ ToSet(call.outcome.val) \subseteq ToSet(lower.val)

\* an indexed metric gave outliers at a threshold, and strictly more at a
\* lower one
C6_Witness ==
    /\ IsCall("detect_outliers")
    /\ call.outcome.ok
    /\ call.outcome.val # <<>>
    /\ Aggregate.val.kind = "dict"
    /\ \E d1 \in Thresholds :
          /\ LessQ(d1, call.deviation)
          /\ Len(detect_outliers(samples, data, sample_wise_data_keys, call.key,
                                 d1, call.subset_samples).val)
               > Len(call.outcome.val)

\* the outliers reported for bin `index`: those labelled "<sample>:<index>"
EntriesOfBin(outliers, index) ==
    SelectSeq(outliers, LAMBDA o : o[1] \in ToSet(BinLabels(ScoredSubset, index)))

\* C7: a slice with zero standard deviation (at least two values, all equal) never
\* raises and contributes no outliers: a scalar metric returns the empty
\* list; for an indexed metric the bin is skipped and the other bins are
\* scored as they are without it.
C7_ZeroDeviation ==
    IsCall("detect_outliers") =>
    LET agg == Aggregate
        subset == ScoredSubset
    IN (agg.ok /\ Len(subset) >= 2)
       => /\ (agg.val.kind = "list" /\ Len(agg.val.items) >= 2
                                     /\ AllEqual(agg.val.items))
             => call.outcome = Ok(<<>>)
          /\ agg.val.kind = "dict"
             => /\ call.outcome.ok
                /\ \A b \in 1..Len(agg.val.items) :
                      LET index == agg.val.items[b][1]
                          values == ZeroPadded(agg.val.items[b][2], subset)
                          entries == EntriesOfBin(call.outcome.val, index)
                      IN IF AllEqual(values)
                         THEN entries = <<>>
                         ELSE entries = ScoreLoop(<<>>, values, median(values).val,
                                                  stdev(values).val, call.deviation,
                                                  BinLabels(subset, index), 1)

\* an indexed metric whose first bin has zero deviation and whose second bin
\* gave outliers
C7_Witness ==
    /\ IsCall("detect_outliers")
    /\ Aggregate.ok
    /\ Aggregate.val.kind = "dict"
    /\ Len(ScoredSubset) >= 2
    /\ Len(Aggregate.val.items) = 2
    /\ AllEqual(ZeroPadded(Aggregate.val.items[1][2], ScoredSubset))
    /\ call.outcome.ok
    /\ EntriesOfBin(call.outcome.val, Aggregate.val.items[2][1]) # <<>>

\* The score of C10, from the definitions: with n values x of sum S,
\*   stdev^2 = sum((n*x[i] - S)^2) / (n^2 * (n - 1)),
\* the median is half of Median2 (the middle value twice, or the sum of the
\* two middle values), and score[i]^2 = ScoreNum(x, i) / ScoreDen(x).
ValuesOf(subset, key) == [i \in 1..Len(subset) |-> MetricOf(subset[i], key).value]

\* the k-th value in increasing order
KthValue(x, k) ==
    CHOOSE v \in ToSet(x) :
        /\ Cardinality({j \in 1..Len(x) : x[j] < v}) < k
        /\ k <= Cardinality({j \in 1..Len(x) : x[j] <= v})

Median2(x) ==
    LET n == Len(x)
    IN IF n % 2 = 1 THEN 2 * KthValue(x, (n + 1) \div 2)
       ELSE KthValue(x, n \div 2) + KthValue(x, n \div 2 + 1)

ScoreNum(x, i) ==
    LET n == Len(x)
    IN (2 * x[i] - Median2(x)) * (2 * x[i] - Median2(x)) * n * n * (n - 1)

ScoreDen(x) ==
    LET n == Len(x)
    IN 4 * Sum([i \in 1..n |-> (n * x[i] - Sum(x)) * (n * x[i] - Sum(x))])

\* score[i] > d, score[i] = d and score[i] = r, for rationals d and r^2
ScoreAbove(x, i, d) ==
    d[1] < 0 \/ ScoreNum(x, i) * d[2] * d[2] > d[1] * d[1] * ScoreDen(x)
ScoreIs(x, i, d) ==
    d[1] >= 0 /\ ScoreNum(x, i) * d[2] * d[2] = d[1] * d[1] * ScoreDen(x)
ScoreSquareIs(x, i, r) == ScoreNum(x, i) * r[2] = r[1] * ScoreDen(x)

\* C10: for a scalar metric with non-zero standard deviation over a given
\* subset of at least 2 samples, detect_outliers returns exactly the pairs
\* (subset[i], score_i), score_i = |value_i - median| / stdev, with
\* score_i > d, in increasing order of i; a score equal to d is excluded.
C10_ScalarOutliers ==
    (/\ IsCall("detect_outliers")
     /\ call.subset_samples.given
     /\ Len(ScoredSubset) >= 2
     /\ call.subset_samples.list = ScoredSubset
     /\ Configured(ScoredSubset)
     /\ KeyOfType(ScoredSubset, call.key, "OneValueData")
     /\ ~AllEqual(ValuesOf(ScoredSubset, call.key)))
    => LET x == ValuesOf(ScoredSubset, call.key)
           above == {i \in 1..Len(x) : ScoreAbove(x, i, call.deviation)}
       IN /\ call.outcome.ok
          /\ Len(call.outcome.val) = Cardinality(above)
          /\ \A k \in 1..Len(call.outcome.val) :
                LET i == KthIndex(above, k)
                IN /\ call.outcome.val[k][1] = ScoredSubset[i]
                   /\ ScoreSquareIs(x, i, call.outcome.val[k][2])

\* a scalar metric was scored over three samples, one of them reported and
\* one of them left out with a score equal to the threshold
C10_Witness ==
    /\ IsCall("detect_outliers")
    /\ call.subset_samples.given
    /\ Len(ScoredSubset) = 3
    /\ Configured(ScoredSubset)
    /\ KeyOfType(ScoredSubset, call.key, "OneValueData")
    /\ ~AllEqual(ValuesOf(ScoredSubset, call.key))
    /\ Len(call.outcome.val) = 1
    /\ \E i \in 1..3 : ScoreIs(ValuesOf(ScoredSubset, call.key), i, call.deviation)

(***************************************************************************)
(* C8 and C9: file names, labels and samples.                              *)
(***************************************************************************)

\* C8 as stated: for every file name and every mapping, whatever its labels,
\* _label_file returns the label of the matching substring when exactly one
\* configured substring occurs in the file name and raises when none or more
\* than one occur; and no construction succeeds with a mapping that matches
\* no file name of the report.
C8_AsStated ==
    /\ IsCall("_label_file")
       => LET hits == Hits(file_mapping_substrings, call.filename)
          IN IF Cardinality(hits) = 1
             THEN call.outcome =
                     Ok(file_mapping_substrings[CHOOSE i \in hits : TRUE][2])
             ELSE call.outcome = Raise("ValueError")
    /\ pc = "constructed"
       => \E f \in ReportFiles(call.raw_data) : Hits(call.mapping, f) # {}

\* C9 as stated: a general-stats file entry whose name contains no configured
\* sample id, or more than one, aborts construction: a construction that
\* succeeded had no such entry.
C9_AsStated ==
    pc = "constructed"
    => \A f \in StatsFiles_(call.raw_data) :
          Len(MatchingSamples(call.samples, f)) = 1

(***************************************************************************)
(* C12: whose value a "sample:bin" entry scores.                           *)
(***************************************************************************)

\* the value of a sample for a bin: its stored value, or 0 when it has none
OwnValue(sample, key, index) ==
    IF DictHas(MetricOf(sample, key).values, index)
    THEN DictGet(MetricOf(sample, key).values, index)
    ELSE 0

\* the samples' own values for a bin, in subset order
OwnValues(subset, key, index) ==
    [i \in 1..Len(subset) |-> OwnValue(subset[i], key, index)]

\* C12 as stated: in detect_outliers on an indexed metric every entry is
\* labelled "s:b" for a sample s of the subset and a bin b of the aggregate
\* and carries the score |v - median| / stdev of s's own value v for b (its
\* stored value, or 0 when it has none), wherever in the subset the samples
\* that lack b stand.
C12_AsStated ==
    (/\ IsCall("detect_outliers")
     /\ Aggregate.ok
     /\ Aggregate.val.kind = "dict"
     /\ call.outcome.ok)
    => \A k \in 1..Len(call.outcome.val) :
          \E b \in 1..Len(Aggregate.val.items), i \in 1..Len(ScoredSubset) :
             LET index == Aggregate.val.items[b][1]
                 own == OwnValues(ScoredSubset, call.key, index)
             IN /\ call.outcome.val[k][1] = BinLabels(ScoredSubset, index)[i]
                /\ ~AllEqual(own)
                /\ call.outcome.val[k][2] =
                      StdevsFromMedian(own[i], median(own).val, stdev(own).val)

(***************************************************************************)
(* C13: the samples detect_outliers reports, against the list it is given. *)
(***************************************************************************)
\* the sample a label names: the label itself for one value per sample, the
\* part before ":" of "sample:bin" for binned values
LabelledBy(label, sample, kind) ==
    IF kind = "list" THEN label = sample
    ELSE /\ Len(label) > Len(sample)
         /\ SubSeq(label, 1, Len(sample) + 1) = sample \o <<":">>

\* every entry of the outcome is labelled with a member of the list
ReportsOnly(list) ==
    \A k \in 1..Len(call.outcome.val) :
       \E i \in 1..Len(list) :
          LabelledBy(call.outcome.val[k][1], list[i], Aggregate.val.kind)

\* C13 as stated: a detect_outliers call given an explicit subset_samples,
\* the empty list included, returns only outliers labelled with a member of
\* that list; samples outside the given list are never reported.
C13_AsStated ==
    (/\ IsCall("detect_outliers")
     /\ call.subset_samples.given
     /\ call.outcome.ok)
    => ReportsOnly(call.subset_samples.list)

\* the same for the non-empty lists only
C13_NonEmptyLists ==
    (/\ IsCall("detect_outliers")
     /\ call.subset_samples.given
     /\ call.subset_samples.list # <<>>
     /\ call.outcome.ok)
    => ReportsOnly(call.subset_samples.list)

====
